---- MODULE Spec2Model ----
\* Model of the client-tool dispatcher (onClientTool), the thread-change
\* handler and the widget-action router (widgets.onAction) of ChatKitPanel.
\* Two revisions of the component exist in the repository:
\*   "part000"  = src/unnamed/part_000 (new-tab-with-fallback, local widget
\*                handling of navigation.open and image downloads)
\*   "panel"    = src/frontend/src/components/ChatKitPanel.tsx (always
\*                same-tab navigation, every widget action relayed)
\* The revision is fixed for a run and chosen nondeterministically in Init.
EXTENDS Integers, Sequences, FiniteSets, TLC

\* ---------------------------------------------------------------- bounds
MaxTextLen == 3
MaxSaves == 3
MaxThreadChanges == 2
MaxInFlight == 1

\* ------------------------------------------------------- JS value tokens
\* Untyped tool parameters: a missing key (undefined) and null are sentinels,
\* every other value is a string token.
Missing == "<undefined>"
NullV == "<null>"
Nullish(v) == v \in {Missing, NullV}

\* String(v ?? "") for string-valued parameters
StrOf(v) == IF Nullish(v) THEN "" ELSE v

\* Characters of fact texts; " " and "\n" are whitespace for /\s/ and trim().
Chars == {"a", " ", "\n"}
IsWs(c) == c \in {" ", "\n", "\t"}

\* -------------------------------------------------------- normalisation
\* text.replace(/\s+/g, " ").trim()
RECURSIVE DropWs(_)
DropWs(s) == IF s # << >> /\ IsWs(Head(s)) THEN DropWs(Tail(s)) ELSE s

RECURSIVE CollapseWs(_)
CollapseWs(s) ==
    IF s = << >> THEN << >>
    ELSE IF IsWs(Head(s)) THEN << " " >> \o CollapseWs(DropWs(s))
    ELSE << Head(s) >> \o CollapseWs(Tail(s))

RECURSIVE TrimEnd(_)
TrimEnd(s) ==
    IF s # << >> /\ IsWs(s[Len(s)]) THEN TrimEnd(SubSeq(s, 1, Len(s) - 1)) ELSE s

Trim(s) == TrimEnd(DropWs(s))

\* replace without the trailing trim()
NormalizeNoTrim(s) == CollapseWs(s)

Normalize(s) == Trim(CollapseWs(s))

\* ------------------------------------------------------------- inputs
ExampleText == << " ", " ", "a", " ", " ", " ", "b", "\n", " ", "c", " " >>
ShortTexts == UNION { [1..n -> Chars] : n \in 0..MaxTextLen }
\* a fact_text parameter: absent, or present with a string value
TextParamsOver(T) == {[present |-> FALSE, s |-> << >>]}
                     \cup { [present |-> TRUE, s |-> t] : t \in T }
\* all short texts, for the normalisation specification
AllFactTextParams == TextParamsOver({ExampleText} \cup ShortTexts)
\* a sample of texts, for the specification of the whole component
FactTextParams == TextParamsOver({ExampleText, << "a" >>})
FactIdParams == {Missing, "", "f1", "f2"}

\* String(invocation.params.fact_text ?? "") as a character sequence
TextOf(v) == IF v.present THEN v.s ELSE << >>

\* ------------------------------------------------------------ state
VARIABLES
    variant,        \* which revision of ChatKitPanel runs
    processedFacts, \* processedFacts.current : Set<string>
    sessionSaves,   \* ids handed to onWidgetAction since the last thread change
    prevSaved,      \* ids handed to onWidgetAction in earlier thread sessions
    threadChanges,  \* number of onThreadChange events so far
    op,             \* the handler that ran in the last step
    input,          \* its input and the environment's answers
    result,         \* the value it resolved with
    eff,            \* the side effects it performed
    calls,          \* concurrently arrived record_fact invocations: id and position
    pendingSaves,   \* detached onWidgetAction promises not yet settled
    failedSaves,    \* some detached onWidgetAction promise has rejected
    failuresReported, \* some rejection was handed to an error-reporting callback
    widgetsInFlight \* onAction calls suspended at an await

vars == << variant, processedFacts, sessionSaves, prevSaved, threadChanges,
          op, input, result, eff, calls, pendingSaves, failedSaves,
          failuresReported, widgetsInFlight >>

Variants == {"part000", "panel"}

NoIn == [tool |-> "-", theme |-> "-", factId |-> "-", factText |-> << >>,
         url |-> "-", newTab |-> "-", popup |-> "-", atype |-> "-",
         purl |-> "-", imgFetch |-> "-", relay |-> "-"]

\* resolved values of the handlers
NoResult == [kind |-> "none", success |-> "absent", error |-> "absent"]
Ok == [kind |-> "object", success |-> "true", error |-> "absent"]
Fail == [kind |-> "object", success |-> "false", error |-> "absent"]
FailWith(msg) == [kind |-> "object", success |-> "false", error |-> msg]
Undef == [kind |-> "undefined", success |-> "absent", error |-> "absent"]
Rejected == [kind |-> "rejected", success |-> "absent", error |-> "absent"]

\* side effects of one handler run
NoEff == [theme |-> << >>,     \* onThemeRequest calls
          save |-> << >>,      \* onWidgetAction({type:"save",...}) calls
          opened |-> << >>,    \* window.open calls and what they returned
          nav |-> << >>,       \* location changes and link clicks
          fetch |-> << >>,     \* fetch() calls
          download |-> << >>,  \* files saved through a download link
          alert |-> FALSE]     \* alert() shown to the user

Init ==
    /\ variant \in Variants
    /\ processedFacts = {}
    /\ sessionSaves = << >>
    /\ prevSaved = {}
    /\ threadChanges = 0
    /\ op = "init"
    /\ input = NoIn
    /\ result = NoResult
    /\ eff = NoEff
    /\ calls = << >>
    /\ pendingSaves = 0
    /\ failedSaves = FALSE
    /\ failuresReported = FALSE
    /\ widgetsInFlight = << >>

\* thread change that keeps the dedupe set
onThreadChangeNoClear ==
    /\ threadChanges < MaxThreadChanges
    /\ processedFacts' = processedFacts
    /\ sessionSaves' = << >>
    /\ prevSaved' = prevSaved \cup { sessionSaves[i] : i \in 1..Len(sessionSaves) }
    /\ threadChanges' = threadChanges + 1
    /\ op' = "thread_change"
    /\ input' = NoIn
    /\ result' = NoResult
    /\ eff' = NoEff
    /\ UNCHANGED << variant, calls, pendingSaves, failedSaves, failuresReported,
                    widgetsInFlight >>

\* onThreadChange: processedFacts.current.clear()
onThreadChange ==
    /\ threadChanges < MaxThreadChanges
    /\ processedFacts' = {}
    /\ sessionSaves' = << >>
    /\ prevSaved' = prevSaved \cup { sessionSaves[i] : i \in 1..Len(sessionSaves) }
    /\ threadChanges' = threadChanges + 1
    /\ op' = "thread_change"
    /\ input' = NoIn
    /\ result' = NoResult
    /\ eff' = NoEff
    /\ UNCHANGED << variant, calls, pendingSaves, failedSaves, failuresReported,
                    widgetsInFlight >>

\* record_fact without the processedFacts.has(id) check
RecordFactOverNoDedup(TextParams) ==
    /\ Len(sessionSaves) < MaxSaves
    /\ \E fid \in FactIdParams, ftxt \in TextParams :
        LET id == StrOf(fid)
            text == TextOf(ftxt)
        IN
        /\ op' = "record_fact"
        /\ input' = [NoIn EXCEPT !.tool = "record_fact", !.factId = fid, !.factText = text]
        /\ result' = Ok
        /\ IF id = ""
             THEN /\ eff' = NoEff
                  /\ UNCHANGED << processedFacts, sessionSaves, pendingSaves >>
             ELSE /\ processedFacts' = processedFacts \cup {id}
                  /\ sessionSaves' = Append(sessionSaves, id)
                  /\ pendingSaves' = pendingSaves + 1
                  /\ eff' = [NoEff EXCEPT !.save =
                               << [factId |-> id, factText |-> Normalize(text)] >>]
    /\ UNCHANGED << variant, prevSaved, threadChanges, calls, failedSaves,
                    failuresReported, widgetsInFlight >>

\* record_fact without the !id check
RecordFactOverNoEmptyCheck(TextParams) ==
    /\ Len(sessionSaves) < MaxSaves
    /\ \E fid \in FactIdParams, ftxt \in TextParams :
        LET id == StrOf(fid)
            text == TextOf(ftxt)
        IN
        /\ op' = "record_fact"
        /\ input' = [NoIn EXCEPT !.tool = "record_fact", !.factId = fid, !.factText = text]
        /\ result' = Ok
        /\ IF id \in processedFacts
             THEN /\ eff' = NoEff
                  /\ UNCHANGED << processedFacts, sessionSaves, pendingSaves >>
             ELSE /\ processedFacts' = processedFacts \cup {id}
                  /\ sessionSaves' = Append(sessionSaves, id)
                  /\ pendingSaves' = pendingSaves + 1
                  /\ eff' = [NoEff EXCEPT !.save =
                               << [factId |-> id, factText |-> Normalize(text)] >>]
    /\ UNCHANGED << variant, prevSaved, threadChanges, calls, failedSaves,
                    failuresReported, widgetsInFlight >>

\* onClientTool, branch invocation.name === "record_fact", for the parameters
\* fact_id = fid and String(fact_text ?? "") = text. The check, the insert
\* and the call of onWidgetAction run without an await in between; the
\* promise of onWidgetAction is discarded (void) and stays pending.
RecordFactWith(fid, text) ==
    LET id == StrOf(fid)
    IN
    /\ op' = "record_fact"
    /\ input' = [NoIn EXCEPT !.tool = "record_fact", !.factId = fid, !.factText = text]
    /\ result' = Ok
    /\ IF id = "" \/ id \in processedFacts
         THEN /\ eff' = NoEff
              /\ UNCHANGED << processedFacts, sessionSaves, pendingSaves >>
         ELSE /\ processedFacts' = processedFacts \cup {id}
              /\ sessionSaves' = Append(sessionSaves, id)
              /\ pendingSaves' = pendingSaves + 1
              /\ eff' = [NoEff EXCEPT !.save =
                           << [factId |-> id, factText |-> Normalize(text)] >>]
    /\ UNCHANGED << variant, prevSaved, threadChanges, failedSaves, failuresReported,
                    widgetsInFlight >>

\* record_fact invoked with a fact_id from Ids and a fact_text from TextParams
RecordFactIn(Ids, TextParams) ==
    /\ Len(sessionSaves) < MaxSaves
    /\ \E fid \in Ids, ftxt \in TextParams :
        RecordFactWith(fid, TextOf(ftxt))
    /\ UNCHANGED << calls, widgetsInFlight >>

RecordFactOver(TextParams) == RecordFactIn(FactIdParams, TextParams)

RecordFact == RecordFactOver(FactTextParams)

\* onClientTool, branch invocation.name === "switch_theme"
ThemeParams == {Missing, NullV, "light", "dark", "sepia", "Light"}

\* switch_theme forwarding any present theme value
SwitchThemeLoose ==
    /\ \E th \in ThemeParams :
        /\ op' = "switch_theme"
        /\ input' = [NoIn EXCEPT !.tool = "switch_theme", !.theme = th]
        /\ IF ~Nullish(th)
             THEN /\ eff' = [NoEff EXCEPT !.theme = << th >>]
                  /\ result' = Ok
             ELSE /\ eff' = NoEff
                  /\ result' = Fail
    /\ UNCHANGED << variant, processedFacts, sessionSaves, prevSaved, threadChanges,
                    calls, pendingSaves, failedSaves, failuresReported,
                    widgetsInFlight >>

SwitchTheme ==
    /\ \E th \in ThemeParams :
        /\ op' = "switch_theme"
        /\ input' = [NoIn EXCEPT !.tool = "switch_theme", !.theme = th]
        /\ IF th = "light" \/ th = "dark"
             THEN /\ eff' = [NoEff EXCEPT !.theme = << th >>]
                  /\ result' = Ok
             ELSE /\ eff' = NoEff
                  /\ result' = Fail
    /\ UNCHANGED << variant, processedFacts, sessionSaves, prevSaved, threadChanges,
                    calls, pendingSaves, failedSaves, failuresReported,
                    widgetsInFlight >>

\* ------------------------------------------------------------ navigation
\* A URL the browser cannot parse makes window.open and the location.href
\* setter throw a SyntaxError; the others are accepted.
BadUrl == "http://["
UrlParams == {Missing, "", "https://example.com", BadUrl}
ValidUrl(u) == u # BadUrl

\* open_in_new_tab tokens; "<true>", "<false>", "<0>" are the JS values true,
\* false and 0, "false" is the string "false"
NewTabParams == {Missing, "<true>", "<false>", "false"}

\* Boolean(invocation.params.open_in_new_tab ?? true)
JSBoolOrTrue(v) == IF Nullish(v) THEN TRUE ELSE v \notin {"<false>", "<0>", ""}

\* what window.open returns for a parseable URL: a window, or null when the
\* browser blocks the popup
PopupOutcomes == {"window", "blocked"}

\* onClientTool, branch invocation.name === "navigate_to_url"
\* new-tab navigation without the same-tab fallback
NewTabNavigationNoFallback(url, pop) ==
    IF ~ValidUrl(url)
      THEN /\ result' = Fail
           /\ eff' = NoEff
    ELSE IF pop = "window"
      THEN /\ result' = Ok
           /\ eff' = [NoEff EXCEPT !.opened = << [url |-> url, got |-> "window"] >>]
    ELSE /\ result' = Ok
         /\ eff' = [NoEff EXCEPT !.opened = << [url |-> url, got |-> "null"] >>]

\* part_000 lines 113-140 with openInNewTab true: window.open, and when it
\* returns null the fallback window.location.href = url
NewTabNavigation(url, pop) ==
    IF ~ValidUrl(url)
      THEN /\ result' = Fail
           /\ eff' = NoEff
    ELSE IF pop = "window"
      THEN /\ result' = Ok
           /\ eff' = [NoEff EXCEPT !.opened = << [url |-> url, got |-> "window"] >>]
    ELSE /\ result' = Ok
         /\ eff' = [NoEff EXCEPT !.opened = << [url |-> url, got |-> "null"] >>,
                                !.nav = << [how |-> "location", url |-> url] >>]

\* navigate_to_url without the !url check
NavigateBodyNoEmptyCheck(url, openInNewTab, pop) ==
    IF FALSE
      THEN /\ result' = Fail
           /\ eff' = NoEff
    ELSE IF variant = "part000" /\ openInNewTab
      THEN NewTabNavigation(url, pop)
    \* part000 with openInNewTab false, and panel in every case:
    \* window.location.href = url
    ELSE IF ValidUrl(url)
      THEN /\ result' = Ok
           /\ eff' = [NoEff EXCEPT !.nav = << [how |-> "location", url |-> url] >>]
    ELSE /\ result' = Fail
         /\ eff' = NoEff

\* the body of the navigate_to_url branch after the parameters are coerced
NavigateBody(url, openInNewTab, pop) ==
    IF url = ""
      THEN /\ result' = Fail
           /\ eff' = NoEff
    ELSE IF variant = "part000" /\ openInNewTab
      THEN NewTabNavigation(url, pop)
    \* part000 with openInNewTab false, and panel in every case:
    \* window.location.href = url
    ELSE IF ValidUrl(url)
      THEN /\ result' = Ok
           /\ eff' = [NoEff EXCEPT !.nav = << [how |-> "location", url |-> url] >>]
    ELSE /\ result' = Fail
         /\ eff' = NoEff

\* what window.open answers, when navigate_to_url calls it
NavPopupAnswers(u, nt) ==
    IF variant = "part000" /\ JSBoolOrTrue(nt) /\ StrOf(u) # "" /\ ValidUrl(StrOf(u))
      THEN PopupOutcomes ELSE {"-"}

NavigateToUrl ==
    /\ \E u \in UrlParams, nt \in NewTabParams :
       \E pop \in NavPopupAnswers(u, nt) :
        /\ op' = "navigate_to_url"
        /\ input' = [NoIn EXCEPT !.tool = "navigate_to_url", !.url = u,
                                 !.newTab = nt, !.popup = pop]
        /\ NavigateBody(StrOf(u), JSBoolOrTrue(nt), pop)
    /\ UNCHANGED << variant, processedFacts, sessionSaves, prevSaved, threadChanges,
                    calls, pendingSaves, failedSaves, failuresReported,
                    widgetsInFlight >>

\* onClientTool, any other invocation.name
UnknownTool ==
    /\ op' = "unknown_tool"
    /\ input' = [NoIn EXCEPT !.tool = "get_weather"]
    /\ result' = Fail
    /\ eff' = NoEff
    /\ UNCHANGED << variant, processedFacts, sessionSaves, prevSaved, threadChanges,
                    calls, pendingSaves, failedSaves, failuresReported,
                    widgetsInFlight >>

\* ----------------------------------------------------------- widget actions
ActionTypes == {"navigation.open", "image.download", "image_generation.download",
                "form.submit"}
ImageTypes == {"image.download", "image_generation.download"}
\* action.payload?.url : absent, null, empty, or a URL
PayloadUrls == {Missing, "https://example.com/img/cat.png",
                "https://example.com/", BadUrl}
Truthy(v) == ~Nullish(v) /\ v # ""

\* answer of fetch(url) for an image: network failure, or an HTTP status
ImgFetchOutcomes == {"network_error", "404", "200"}

\* answer of POST /api/widget-action: network failure, or a status and a body
\* ("ok" = {success:true}, "fail" = {success:false,error}, "detail" = a JSON
\* object without success, "malformed" = not JSON)
RelayOutcomes == {[net |-> "error", status |-> 0, body |-> "-"]}
                 \cup {[net |-> "ok", status |-> 200, body |-> b] : b \in {"ok", "malformed"}}
                 \cup {[net |-> "ok", status |-> 500, body |-> b] : b \in {"fail", "detail", "malformed"}}

\* the value response.json() resolves with, for a body that parses
BodyValue(b) ==
    CASE b = "ok"     -> Ok
      [] b = "fail"   -> FailWith("backend")
      [] b = "detail" -> [kind |-> "object", success |-> "absent", error |-> "absent"]

\* pathname.split("/").pop() || "generated-image.png"
FileNameOf(url) ==
    IF url = "https://example.com/img/cat.png" THEN "cat.png" ELSE "generated-image.png"

RelayEndpoint == "/api/widget-action"

\* widgets.onAction of src/unnamed/part_000, the branches that settle without
\* an await: navigation.open (161-186) and an image action without a URL
\* (197-200)
WidgetActionPart000(t, pu, pop) ==
    IF t = "navigation.open"
      THEN IF ~Truthy(pu)
             THEN /\ result' = Undef
                  /\ eff' = NoEff
           ELSE IF ~ValidUrl(pu)
             \* window.open throws outside any try: the handler rejects
             THEN /\ result' = Rejected
                  /\ eff' = NoEff
           ELSE IF pop = "window"
             THEN /\ result' = Undef
                  /\ eff' = [NoEff EXCEPT !.opened = << [url |-> pu, got |-> "window"] >>]
             ELSE /\ result' = Undef
                  /\ eff' = [NoEff EXCEPT !.opened = << [url |-> pu, got |-> "null"] >>,
                                         !.nav = << [how |-> "link", url |-> pu] >>]
    ELSE /\ result' = Undef
         /\ eff' = NoEff

\* does onAction settle before its first await?
SettlesAtOnce(t, pu) ==
    variant = "part000" /\ (t = "navigation.open" \/ (t \in ImageTypes /\ ~Truthy(pu)))

\* part_000 fetches the image itself; every other awaiting handler relays
IsImageFetch(t) == variant = "part000" /\ t \in ImageTypes

NoRel == [net |-> "-", status |-> 0, body |-> "-"]

PopupAnswers(t, pu) ==
    IF t = "navigation.open" /\ Truthy(pu) /\ ValidUrl(pu)
      THEN PopupOutcomes ELSE {"-"}

\* onAction is called: it runs to completion, or up to its await fetch(...)
\* (part_000 204 and 245, ChatKitPanel.tsx 140), where it suspends
WidgetActionStart ==
    /\ Len(widgetsInFlight) < MaxInFlight
    /\ \E t \in ActionTypes, pu \in PayloadUrls :
        IF SettlesAtOnce(t, pu)
          THEN \E pop \in PopupAnswers(t, pu) :
                 /\ op' = "widget_action"
                 /\ input' = [NoIn EXCEPT !.atype = t, !.purl = pu, !.imgFetch = "-",
                                          !.relay = NoRel, !.popup = pop]
                 /\ WidgetActionPart000(t, pu, pop)
                 /\ UNCHANGED widgetsInFlight
          ELSE LET started == [NoEff EXCEPT !.fetch =
                                 << IF IsImageFetch(t) THEN pu ELSE RelayEndpoint >>]
               IN
               /\ op' = "widget_action_start"
               /\ input' = [NoIn EXCEPT !.atype = t, !.purl = pu]
               /\ result' = NoResult
               /\ eff' = started
               /\ widgetsInFlight' = Append(widgetsInFlight,
                      [atype |-> t, purl |-> pu, pc |-> "fetch", img |-> "-",
                       rel |-> NoRel, pop |-> "-", acc |-> started])
    /\ UNCHANGED << variant, processedFacts, sessionSaves, prevSaved, threadChanges,
                    calls, pendingSaves, failedSaves, failuresReported >>

RemoveAt(sq, k) == [i \in 1..(Len(sq) - 1) |-> IF i < k THEN sq[i] ELSE sq[i + 1]]

\* the suspended handler k settles with value res; eff reports every effect
\* of that handler run, the fetch of its first turn included
WidgetFinish(k, h, res, acc) ==
    /\ op' = "widget_action"
    /\ input' = [NoIn EXCEPT !.atype = h.atype, !.purl = h.purl, !.imgFetch = h.img,
                             !.relay = h.rel, !.popup = h.pop]
    /\ result' = res
    /\ eff' = acc
    /\ widgetsInFlight' = RemoveAt(widgetsInFlight, k)

\* the suspended handler k passes one await and suspends again at the next
WidgetSuspend(k, h) ==
    /\ op' = "widget_action_resumed"
    /\ input' = NoIn
    /\ result' = NoResult
    /\ eff' = NoEff
    /\ widgetsInFlight' = [widgetsInFlight EXCEPT ![k] = h]

\* part_000 202-238: await fetch(url), then await response.blob()
ImageResume(k, h) ==
    IF h.pc = "fetch"
      \* fetch of an unparseable URL rejects like a network failure
      THEN \E img \in (IF ValidUrl(h.purl) THEN ImgFetchOutcomes ELSE {"network_error"}) :
             IF img = "200"
               THEN WidgetSuspend(k, [h EXCEPT !.img = img, !.pc = "blob"])
               \* network failure, or !response.ok: caught, alert, return
               ELSE WidgetFinish(k, [h EXCEPT !.img = img], Undef,
                                 [h.acc EXCEPT !.alert = TRUE])
    ELSE WidgetFinish(k, h, Undef, [h.acc EXCEPT !.download = << FileNameOf(h.purl) >>])

\* part_000 243-257 and ChatKitPanel.tsx 139-162: await fetch(relay), then
\* await response.json(); the panel then opens the URL of navigation.open
RelayResume(k, h) ==
    IF h.pc = "fetch"
      THEN \E rel \in RelayOutcomes :
             IF rel.net = "error"
               THEN WidgetFinish(k, [h EXCEPT !.rel = rel], FailWith("Failed to fetch"), h.acc)
               ELSE WidgetSuspend(k, [h EXCEPT !.rel = rel, !.pc = "json"])
    ELSE IF h.rel.body = "malformed"
      THEN WidgetFinish(k, h, FailWith("Unexpected token"), h.acc)
    ELSE IF variant = "panel" /\ h.atype = "navigation.open" /\ Truthy(h.purl)
      THEN IF ~ValidUrl(h.purl)
             \* window.open throws inside the try: caught
             THEN WidgetFinish(k, h, FailWith("SyntaxError"), h.acc)
             ELSE \E pop \in PopupOutcomes :
                    WidgetFinish(k, [h EXCEPT !.pop = pop], BodyValue(h.rel.body),
                                 [h.acc EXCEPT !.opened =
                                    << [url |-> h.purl, got |-> IF pop = "window" THEN "window" ELSE "null"] >>])
    ELSE WidgetFinish(k, h, BodyValue(h.rel.body), h.acc)

\* a suspended onAction continues after the promise it awaits settles
WidgetActionResume ==
    /\ \E k \in 1..Len(widgetsInFlight) :
        IF IsImageFetch(widgetsInFlight[k].atype)
          THEN ImageResume(k, widgetsInFlight[k])
          ELSE RelayResume(k, widgetsInFlight[k])
    /\ UNCHANGED << variant, processedFacts, sessionSaves, prevSaved, threadChanges,
                    calls, pendingSaves, failedSaves, failuresReported >>

\* the discarded onWidgetAction promise of a save settles: it fulfils, or it
\* rejects; nothing is attached to it (void), so no error callback runs
SettleSave ==
    /\ pendingSaves > 0
    /\ pendingSaves' = pendingSaves - 1
    /\ \/ UNCHANGED failedSaves
       \/ failedSaves' = TRUE
    /\ op' = "save_settled"
    /\ input' = NoIn
    /\ result' = NoResult
    /\ eff' = NoEff
    /\ UNCHANGED << variant, processedFacts, sessionSaves, prevSaved, threadChanges,
                    calls, failuresReported, widgetsInFlight >>

Next ==
    \/ SettleSave
    \/ WidgetActionStart
    \/ WidgetActionResume
    \/ onThreadChange
    \/ RecordFact
    \/ SwitchTheme
    \/ NavigateToUrl
    \/ UnknownTool

Spec == Init /\ [][Next]_vars

\* The tool handlers and the widget handlers share no state: onAction reads and
\* writes none of processedFacts, the saves or the theme, and onClientTool
\* none of the suspended onAction calls. Each group of claims is checked
\* under the component restricted to the handlers of its group, with thread
\* changes and settling saves interleaved.

\* onClientTool, onThreadChange and the detached saves
ToolNext ==
    \/ SettleSave
    \/ onThreadChange
    \/ RecordFact
    \/ SwitchTheme
    \/ NavigateToUrl
    \/ UnknownTool

ToolSpec == Init /\ [][ToolNext]_vars

\* widgets.onAction, with record_fact, thread changes and detached saves
\* running while an onAction call is suspended
\* one fact, recorded while widget actions are suspended
RecordOneFact == RecordFactIn({"f1"}, TextParamsOver({<< "a" >>}))

WidgetNext ==
    \/ WidgetActionStart
    \/ WidgetActionResume
    \/ RecordOneFact
    \/ onThreadChange
    \/ SettleSave

WidgetSpec == Init /\ [][WidgetNext]_vars

\* record_fact over every short fact text, with thread changes
RecordFactAll == RecordFactOver(AllFactTextParams)

FactNext ==
    \/ RecordFactAll
    \/ onThreadChange

FactSpec == Init /\ [][FactNext]_vars

\* ------------------------------------- concurrently arriving record_fact calls
\* Invocations that have arrived but whose handler has not run; the event loop
\* runs each onClientTool call up to its first await in one turn, and the
\* record_fact branch has no await, so each runs in one step, in any order.
NConc == 3
ConcIds == {"f1", "f2", ""}

\* invocation i runs with check and insert split into two turns
RecordFactStepSplit(i) ==
    LET id == calls[i].id
    IN
    /\ Len(sessionSaves) < MaxSaves
    /\ IF calls[i].pc = "arrived"
         THEN /\ op' = "record_fact"
              /\ input' = [NoIn EXCEPT !.tool = "record_fact", !.factId = id, !.factText = << "a" >>]
              /\ result' = IF id = "" \/ id \in processedFacts THEN Ok ELSE NoResult
              /\ eff' = NoEff
              /\ calls' = [calls EXCEPT ![i].pc =
                              IF id = "" \/ id \in processedFacts THEN "done" ELSE "checked"]
              /\ UNCHANGED << processedFacts, sessionSaves, pendingSaves >>
         ELSE /\ op' = "record_fact"
              /\ input' = [NoIn EXCEPT !.tool = "record_fact", !.factId = id, !.factText = << "a" >>]
              /\ result' = Ok
              /\ processedFacts' = processedFacts \cup {id}
              /\ sessionSaves' = Append(sessionSaves, id)
              /\ pendingSaves' = pendingSaves + 1
              /\ eff' = [NoEff EXCEPT !.save = << [factId |-> id, factText |-> << "a" >>] >>]
              /\ calls' = [calls EXCEPT ![i].pc = "done"]
    /\ UNCHANGED << variant, prevSaved, threadChanges, failedSaves, failuresReported,
                    widgetsInFlight >>

\* the event loop runs the onClientTool call of invocation i
RecordFactStep(i) ==
    /\ Len(sessionSaves) < MaxSaves
    /\ calls[i].pc = "arrived"
    /\ RecordFactWith(calls[i].id, << "a" >>)
    /\ calls' = [calls EXCEPT ![i].pc = "done"]

ConcInit ==
    /\ variant \in Variants
    /\ processedFacts = {}
    /\ sessionSaves = << >>
    /\ prevSaved = {}
    /\ threadChanges = 0
    /\ op = "init"
    /\ input = NoIn
    /\ result = NoResult
    /\ eff = NoEff
    /\ calls \in [1..NConc -> [id : ConcIds, pc : {"arrived"}]]
    /\ pendingSaves = 0
    /\ failedSaves = FALSE
    /\ failuresReported = FALSE
    /\ widgetsInFlight = << >>

ConcNext ==
    \/ \E i \in 1..NConc : calls[i].pc # "done" /\ RecordFactStep(i)
    \/ onThreadChange
    \/ SettleSave

ConcSpec == ConcInit /\ [][ConcNext]_vars

\* ================================================================ claims

SavedId == IF eff.save = << >> THEN "" ELSE eff.save[1].factId

\* C1: within one thread session every fact id is handed to the persistence
\* callback at most once, and every record_fact resolves {success:true}.
C1_RecordFactAtMostOnce ==
    /\ \A i, j \in 1..Len(sessionSaves) : i # j => sessionSaves[i] # sessionSaves[j]
    /\ (op = "record_fact" => result = Ok)

\* a replay of a fact id already recorded in this session
C1_Witness ==
    /\ op = "record_fact"
    /\ StrOf(input.factId) \in processedFacts
    /\ eff.save = << >>
    /\ StrOf(input.factId) \in { sessionSaves[i] : i \in 1..Len(sessionSaves) }

\* C2: record_fact with an empty or missing fact_id persists nothing, leaves
\* the dedupe set unchanged and resolves {success:true}.
C2_EmptyIdNoop ==
    [][ (op' = "record_fact" /\ StrOf(input'.factId) = "")
          => /\ eff'.save = << >>
             /\ processedFacts' = processedFacts
             /\ result' = Ok ]_vars

C2_Witness ==
    /\ op = "record_fact"
    /\ input.factId \in {Missing, ""}
    /\ processedFacts # {}

\* C3: the dedupe set is emptied on every thread change, never shrinks on a
\* tool invocation, and a fact id persisted in an earlier session is
\* persisted again by its first record_fact after the change.
C3_ThreadScopedDedupe ==
    [][ /\ (op' = "thread_change" => processedFacts' = {})
        /\ (op' # "thread_change" => processedFacts \subseteq processedFacts')
        /\ ((op' = "record_fact" /\ StrOf(input'.factId) \in prevSaved
               /\ StrOf(input'.factId) \notin processedFacts)
              => /\ Len(eff'.save) = 1
                 /\ eff'.save[1].factId = StrOf(input'.factId)) ]_vars

C3_Witness ==
    /\ op = "record_fact"
    /\ eff.save # << >>
    /\ SavedId \in prevSaved

\* C4: switch_theme calls onThemeRequest with the value and resolves
\* {success:true} exactly for "light" and "dark"; any other value resolves
\* {success:false} without calling it.
C4_SwitchThemeStrict ==
    op = "switch_theme" =>
        IF input.theme \in {"light", "dark"}
          THEN eff.theme = << input.theme >> /\ result = Ok
          ELSE eff.theme = << >> /\ result = Fail

C4_Witness ==
    /\ op = "switch_theme"
    /\ input.theme = "sepia"

\* C5: navigate_to_url with an empty or missing url resolves {success:false}
\* and neither opens a window nor changes the location.
C5_EmptyUrlNoNavigation ==
    (op = "navigate_to_url" /\ StrOf(input.url) = "")
        => /\ result = Fail
           /\ eff.opened = << >>
           /\ eff.nav = << >>

C5_Witness ==
    /\ op = "navigate_to_url"
    /\ input.url = Missing
    /\ JSBoolOrTrue(input.newTab)

\* C6: navigate_to_url with a URL and open_in_new_tab true or absent, when the
\* browser blocks new windows, navigates the current window to that URL and
\* resolves {success:true}.
C6_BlockedFallsBack ==
    (/\ op = "navigate_to_url"
     /\ StrOf(input.url) # ""
     /\ ValidUrl(StrOf(input.url))
     /\ JSBoolOrTrue(input.newTab)
     \* window.open returned null, or (frontend revision) was never tried
     /\ input.popup # "window")
        => /\ eff.nav = << [how |-> "location", url |-> StrOf(input.url)] >>
           /\ result = Ok

\* window.open returned null and the fallback ran
C6_Witness ==
    /\ op = "navigate_to_url"
    /\ eff.opened # << >>
    /\ eff.opened[1].got = "null"
    /\ input.newTab = Missing

\* C7: an image download whose fetch fails shows a failure notice and
\* resolves a failed result, never a rejection.
ImageFetchFailed ==
    /\ op = "widget_action"
    /\ input.atype \in ImageTypes
    /\ Truthy(input.purl)
    /\ \/ ~ValidUrl(input.purl)
       \/ input.imgFetch \in {"network_error", "404"}
       \/ input.relay.net = "error"
       \/ input.relay.status = 500

C7_ImageFetchFailure ==
    ImageFetchFailed => /\ eff.alert
                        /\ result.kind = "object"
                        /\ result.success = "false"

\* C8: navigation.open without a URL has no side effect and surfaces no error.
C8_NavigationOpenNoUrlNoop ==
    (op = "widget_action" /\ input.atype = "navigation.open" /\ ~Truthy(input.purl))
        => /\ eff = NoEff
           /\ result.kind # "rejected"
           /\ result.success # "false"

\* C9: a relayed widget action whose request fails, whose status is not 2xx or
\* whose body is not JSON resolves {success:false, error}.
C9_RelayFailureStructured ==
    (/\ op = "widget_action"
     /\ eff.fetch = << RelayEndpoint >>
     /\ \/ input.relay.net = "error"
        \/ input.relay.status = 500
        \/ input.relay.body = "malformed")
        => /\ result.kind = "object"
           /\ result.success = "false"
           /\ result.error # "absent"

\* C10: the text handed to persistence is fact_text with every whitespace run
\* collapsed to one space and both ends trimmed, i.e. its words joined by
\* single spaces ("  a   b\n c " becomes "a b c").
RECURSIVE WordsOf(_, _)
WordsOf(s, cur) ==
    IF s = << >> THEN (IF cur = << >> THEN << >> ELSE << cur >>)
    ELSE IF IsWs(Head(s))
      THEN (IF cur = << >> THEN << >> ELSE << cur >>) \o WordsOf(Tail(s), << >>)
    ELSE WordsOf(Tail(s), Append(cur, Head(s)))

RECURSIVE JoinWords(_)
JoinWords(ws) ==
    IF ws = << >> THEN << >>
    ELSE IF Len(ws) = 1 THEN ws[1]
    ELSE ws[1] \o << " " >> \o JoinWords(Tail(ws))

C10_FactTextNormalized ==
    (op = "record_fact" /\ eff.save # << >>)
        => /\ eff.save[1].factText = JoinWords(WordsOf(input.factText, << >>))
           /\ (input.factText = ExampleText
                 => eff.save[1].factText = << "a", " ", "b", " ", "c" >>)

C10_Witness ==
    /\ op = "record_fact"
    /\ eff.save # << >>
    /\ input.factText = ExampleText

\* C11: however concurrently arrived record_fact invocations for the same
\* fact id are interleaved, the check-and-insert precedes the persistence call
\* and persistence is issued for each fact id at most once per thread session.
C11_ConcurrentDedupe ==
    /\ \A f \in ConcIds \ {""} :
         Cardinality({ i \in 1..Len(sessionSaves) : sessionSaves[i] = f }) <= 1
    /\ \A i \in 1..Len(sessionSaves) : sessionSaves[i] \in processedFacts

\* two invocations of the same fact id arrived together and both have run
C11_Witness ==
    \E i, j \in 1..NConc :
        /\ i # j
        /\ calls[i].id = calls[j].id
        /\ calls[i].id # ""
        /\ calls[i].pc = "done"
        /\ calls[j].pc = "done"
        /\ threadChanges = 0

\* the component with the detached save promises settling fairly
LiveNext ==
    \/ RecordFact
    \/ onThreadChange
    \/ SettleSave

LiveSpec == Init /\ [][LiveNext]_vars /\ WF_vars(SettleSave)

\* C12: record_fact resolves {success:true} without waiting for its detached
\* save, and a rejection of that save eventually reaches an error-reporting
\* callback.
C12_DetachedSaveFailureReported ==
    /\ [](op = "record_fact" => result = Ok)
    /\ (failedSaves ~> failuresReported)

\* record_fact has resolved while its save is still pending
C12_Witness ==
    /\ op = "record_fact"
    /\ result = Ok
    /\ pendingSaves > 0

====
